---------------------------- MODULE Spec2Model ----------------------------
(***************************************************************************)
(* Model of the fungible-ics20-ics20-conversion CosmWasm contract          *)
(* (src/src/contract.rs, src/src/state.rs, src/src/error.rs).              *)
(*                                                                         *)
(* The contract keeps one record in storage, the Item STATE, here         *)
(* StateItem (STATE is a reserved word of TLA+).  The entry points         *)
(* instantiate, execute (Increment, Reset), deposit_dest_tokens,           *)
(* convert_tokens and query (GetCount) are one action each.  The pure      *)
(* function calculate_token_conversion_output is an operator; the          *)
(* specification ConvSpec calls it directly, as tests::test_convert_token  *)
(* does.                                                                   *)
(*                                                                         *)
(* Numbers.  TLC's integers are 32 bits wide, the contract's amounts are   *)
(* u128.  A u128 (and every exact, unbounded reference value) is a         *)
(* little-endian sequence of limbs in base 2^8 without leading zero limbs  *)
(* (zero is <<>>); a value fits u128 iff it has at most 16 limbs.  The     *)
(* counter is an i32 and is a TLC integer; no i32 operation of the model   *)
(* computes a value outside the i32 range.                                 *)
(*                                                                         *)
(* Overflow.  `*`, `*=` and `+=` on Rust's primitive integers panic when   *)
(* the crate is built with overflow checks and wrap (mod 2^w) when it is   *)
(* built without; the build profile is not part of the sources, so         *)
(* overflow_checks is chosen by Init and both outcomes are explored.       *)
(* Division by zero panics in every build.  cosmwasm_std's Uint128         *)
(* addition (used by the .sum() of the tendered amounts) is a checked      *)
(* addition that panics in every build.  A panic aborts the call: the      *)
(* host rolls the storage back and no message is emitted.                  *)
(***************************************************************************)
EXTENDS Integers, Sequences, FiniteSets, TLC

VARIABLES StateItem, contract_info, overflow_checks, msg, res

vars == <<StateItem, contract_info, overflow_checks, msg, res>>

---------------------------------------------------------------------------
(* Unbounded naturals as limb sequences.                                   *)

Base == 2 ^ 8

\* Every loop over the limbs is written over a range lo..hi that is split in
\* two halves, the first evaluated before the second: the limbs are visited
\* in order, and the evaluation depth is logarithmic in the length.

\* e, once v is evaluated: the operands of an operator are values before the
\* operator works on them
Then(v, e) == IF v = v THEN e ELSE e

Max(x, y) == IF x >= y THEN x ELSE y

Min(x, y) == IF x <= y THEN x ELSE y

\* s without its leading (most significant) zero limbs
Norm(s) ==
    IF s = <<>> \/ s[Len(s)] # 0 THEN s
    ELSE LET top == {i \in 1..Len(s) : s[i] # 0}
         IN  IF top = {} THEN <<>>
             ELSE SubSeq(s, 1, CHOOSE i \in top : \A j \in top : j <= i)

RECURSIVE N(_)
\* the limbs of a TLC integer n >= 0 (at most four)
N(n) == IF n = 0 THEN <<>> ELSE <<n % Base>> \o N(n \div Base)

Limb(a, i) == IF i <= Len(a) THEN a[i] ELSE 0

\* <<limbs lo..hi of a + b + carry, carry out>>
RECURSIVE AddRange(_, _, _, _, _)
AddRange(a, b, lo, hi, carry) ==
    IF lo > hi THEN <<<<>>, carry>>
    ELSE IF lo = hi
    THEN LET t == Limb(a, lo) + Limb(b, lo) + carry
         IN  <<<<t % Base>>, t \div Base>>
    ELSE LET mid   == (lo + hi) \div 2
             first == AddRange(a, b, lo, mid, carry)
             rest  == AddRange(a, b, mid + 1, hi, first[2])
         IN  <<first[1] \o rest[1], rest[2]>>

BAdd(a, b) ==
    IF a = <<>> THEN b
    ELSE IF b = <<>> THEN a
    ELSE LET t == AddRange(a, b, 1, Max(Len(a), Len(b)), 0)
         IN  Norm(IF t[2] = 0 THEN t[1] ELSE Append(t[1], t[2]))

\* <<limbs lo..hi of a - b - borrow, borrow out>>
RECURSIVE SubRange(_, _, _, _, _)
SubRange(a, b, lo, hi, borrow) ==
    IF lo > hi THEN <<<<>>, borrow>>
    ELSE IF lo = hi
    THEN LET t == Limb(a, lo) - Limb(b, lo) - borrow
         IN  IF t < 0 THEN <<<<t + Base>>, 1>> ELSE <<<<t>>, 0>>
    ELSE LET mid   == (lo + hi) \div 2
             first == SubRange(a, b, lo, mid, borrow)
             rest  == SubRange(a, b, mid + 1, hi, first[2])
         IN  <<first[1] \o rest[1], rest[2]>>

\* a - b, for b <= a
BSub(a, b) == IF b = <<>> THEN a ELSE Norm(SubRange(a, b, 1, Len(a), 0)[1])

\* <<limbs lo..hi of a * k + carry, carry out>>
RECURSIVE MulSmallRange(_, _, _, _, _)
MulSmallRange(a, k, lo, hi, carry) ==
    IF lo > hi THEN <<<<>>, carry>>
    ELSE IF lo = hi
    THEN LET t == a[lo] * k + carry
         IN  <<<<t % Base>>, t \div Base>>
    ELSE LET mid   == (lo + hi) \div 2
             first == MulSmallRange(a, k, lo, mid, carry)
             rest  == MulSmallRange(a, k, mid + 1, hi, first[2])
         IN  <<first[1] \o rest[1], rest[2]>>

\* a * k for a TLC integer 0 <= k < 2^20
BMulSmall(a, k) ==
    IF a = <<>> \/ k = 0 THEN <<>>
    ELSE LET t == MulSmallRange(a, k, 1, Len(a), 0) IN Norm(t[1] \o N(t[2]))

Shift(a, n) == IF a = <<>> THEN <<>> ELSE [i \in 1..n |-> 0] \o a

\* a * (limbs lo..hi of b, in their places)
RECURSIVE MulRange(_, _, _, _)
MulRange(a, b, lo, hi) ==
    IF lo > hi THEN <<>>
    ELSE IF lo = hi THEN Shift(BMulSmall(a, b[lo]), lo - 1)
    ELSE LET mid  == (lo + hi) \div 2
             low  == MulRange(a, b, lo, mid)
             high == MulRange(a, b, mid + 1, hi)
         IN  Then(low, Then(high, BAdd(low, high)))

BMul(a, b) == IF a = <<>> \/ b = <<>> THEN <<>> ELSE MulRange(a, b, 1, Len(b))

\* -1, 0, 1 as limbs lo..hi of a are below, equal to, above those of b
RECURSIVE CmpRange(_, _, _, _)
CmpRange(a, b, lo, hi) ==
    IF lo > hi THEN 0
    ELSE IF lo = hi
    THEN (IF a[lo] < b[lo] THEN -1 ELSE IF a[lo] > b[lo] THEN 1 ELSE 0)
    ELSE LET mid == (lo + hi) \div 2
             top == CmpRange(a, b, mid + 1, hi)
         IN  IF top # 0 THEN top ELSE CmpRange(a, b, lo, mid)

\* -1, 0, 1 as a < b, a = b, a > b (both without leading zero limbs)
BCmp(a, b) ==
    IF Len(a) < Len(b) THEN -1
    ELSE IF Len(a) > Len(b) THEN 1
    ELSE CmpRange(a, b, 1, Len(a))

BLeq(a, b) == BCmp(a, b) <= 0

BLt(a, b) == BCmp(a, b) < 0

\* the largest d in lo..hi with b * d <= r, given b * lo <= r
RECURSIVE QDigit(_, _, _, _)
QDigit(r, b, lo, hi) ==
    IF lo >= hi THEN lo
    ELSE LET mid == (lo + hi + 1) \div 2
         IN  IF BLeq(BMulSmall(b, mid), r) THEN QDigit(r, b, mid, hi)
                                           ELSE QDigit(r, b, lo, mid - 1)

\* floor(r / b) for 0 <= r < b * Base: the leading limbs of r and b bound it
\* (b < (bt + 1) * Base^(n-2) and r >= rt * Base^(n-2), and the other way
\* round), and QDigit finds it between the bounds.
Digit(r, b) ==
    LET n == Len(b)
    IN  IF BLt(r, b) THEN 0
        ELSE IF n = 1 THEN (Limb(r, 2) * Base + Limb(r, 1)) \div b[1]
        ELSE LET bt == b[n] * Base + b[n - 1]
                 rt == (Limb(r, n + 1) * Base + Limb(r, n)) * Base + Limb(r, n - 1)
             IN  QDigit(r, b, rt \div (bt + 1), Min(Base - 1, rt \div bt))

\* long division over the limbs hi, hi - 1, .., lo of a, the remainder r
\* carried in: <<quotient limbs lo..hi, remainder>>
RECURSIVE DivRange(_, _, _, _, _)
DivRange(a, b, lo, hi, r) ==
    IF lo > hi THEN <<<<>>, r>>
    ELSE IF lo = hi
    THEN LET r1 == Norm(<<a[lo]>> \o r)
             d  == Digit(r1, b)
         IN  Then(r1, <<<<d>>, IF d = 0 THEN r1 ELSE BSub(r1, BMulSmall(b, d))>>)
    ELSE LET mid  == (lo + hi) \div 2
             high == DivRange(a, b, mid + 1, hi, r)
             low  == DivRange(a, b, lo, mid, high[2])
         IN  Then(high, <<low[1] \o high[1], low[2]>>)

\* floor(a / b), for b # 0
BDiv(a, b) == IF BLt(a, b) THEN <<>> ELSE Norm(DivRange(a, b, 1, Len(a), <<>>)[1])

\* 10^k, exact
RECURSIVE Pow10(_)
Pow10(k) ==
    IF k = 0 THEN N(1)
    ELSE IF k = 1 THEN N(10)
    ELSE LET low  == Pow10(k \div 2)
             high == Pow10(k - (k \div 2))
         IN  Then(low, Then(high, BMul(low, high)))

---------------------------------------------------------------------------
(* Rust integer arithmetic.                                                *)

U128Bits == 128

U128Limbs == U128Bits \div 8

U128Max == [i \in 1..U128Limbs |-> Base - 1]

FitsU128(v) == Len(v) <= U128Limbs

\* v mod 2^128
WrapU128(v) == IF FitsU128(v) THEN v ELSE Norm(SubSeq(v, 1, U128Limbs))

I32Max == 2147483647

I32Min == (-I32Max) - 1

\* The outcome of an expression: a value, or an unwinding panic.
Val(v) == [panic |-> FALSE, v |-> v]

Panicked == [panic |-> TRUE, v |-> <<>>]

\* a * b computed in 64 bits and widened afterwards
mul_u128_in_u64(a, b) ==
    LET p == BMul(a, b)
    IN  IF Len(p) <= U128Limbs \div 2 THEN Val(p)
        ELSE IF overflow_checks THEN Panicked
        ELSE Val(Norm(SubSeq(p, 1, U128Limbs \div 2)))

\* a * b on u128: panics with overflow checks, wraps without
mul_u128(a, b) ==
    LET p == BMul(a, b)
    IN  IF FitsU128(p) THEN Val(p)
        ELSE IF overflow_checks THEN Panicked
        ELSE Val(WrapU128(p))

\* a / b that rounds up instead of down
div_u128_rounds_up(a, b) ==
    IF b = <<>> THEN Panicked
    ELSE LET q == BDiv(a, b)
         IN  Val(IF BMul(q, b) = a THEN q ELSE BAdd(q, N(1)))

\* a / b on u128: a zero divisor panics in every build
div_u128(a, b) == IF b = <<>> THEN Panicked ELSE Val(BDiv(a, b))

\* Uint128 + Uint128 (cosmwasm_std): checked_add(..).unwrap() in every build
add_Uint128(a, b) ==
    LET t == BAdd(a, b) IN IF FitsU128(t) THEN Val(t) ELSE Panicked

---------------------------------------------------------------------------
(* The conversion engine.                                                  *)

\* k iterations of `whole_token *= 10`, in order; the iterations are split
\* in two halves so that the evaluation depth is logarithmic in k.
RECURSIVE whole_token_loop(_, _)
whole_token_loop(k, whole_token) ==
    IF k = 0 THEN Val(whole_token)
    ELSE IF k = 1 THEN mul_u128(whole_token, N(10))
    ELSE LET first == whole_token_loop(k \div 2, whole_token)
         IN  IF first.panic THEN Panicked
             ELSE whole_token_loop(k - (k \div 2), first.v)

get_whole_token_representation(decimals) == whole_token_loop(decimals, N(1))

\* Ok(ConvertTokenResponse { amount }) or a panic; the function has no Err
\* return.
ConvertOk(amount) == [kind |-> "Ok", amount |-> amount]

ConvertPanic == [kind |-> "Panic", amount |-> <<>>]

\* the compensation with the two branches confused: it multiplies where
\* the output token has fewer decimals, too
compensate_multiplies(result, input_decimals, output_decimals) ==
    IF input_decimals < output_decimals
    THEN LET compensation ==
                 get_whole_token_representation(output_decimals - input_decimals)
         IN  IF compensation.panic THEN Panicked
             ELSE mul_u128(result, compensation.v)
    ELSE IF output_decimals < input_decimals
    THEN LET compensation ==
                 get_whole_token_representation(input_decimals - output_decimals)
         IN  IF compensation.panic THEN Panicked
             ELSE mul_u128(result, compensation.v)
    ELSE Val(result)

\* lines 124-130: the result after the decimals compensation
compensate(result, input_decimals, output_decimals) ==
    IF input_decimals < output_decimals
    THEN LET compensation ==
                 get_whole_token_representation(output_decimals - input_decimals)
         IN  IF compensation.panic THEN Panicked
             ELSE mul_u128(result, compensation.v)
    ELSE IF output_decimals < input_decimals
    THEN LET compensation ==
                 get_whole_token_representation(input_decimals - output_decimals)
         IN  IF compensation.panic THEN Panicked
             ELSE div_u128(result, compensation.v)
    ELSE Val(result)

calculate_token_conversion_output(amount, rate, input_decimals, output_decimals) ==
    LET result0 == mul_u128(amount, rate)
    IN  IF result0.panic THEN ConvertPanic
        ELSE
        LET result1 == compensate(result0.v, input_decimals, output_decimals)
        IN  IF result1.panic THEN ConvertPanic
            ELSE
            LET whole_token == get_whole_token_representation(output_decimals)
            IN  IF whole_token.panic THEN ConvertPanic
                ELSE
                LET result == div_u128(result1.v, whole_token.v)
                IN  IF result.panic THEN ConvertPanic
                    ELSE ConvertOk(result.v)

---------------------------------------------------------------------------
(* Storage, messages and responses.                                        *)

CONTRACT_NAME == "crates.io:fungible-ics20-ics20-conversion"

CONTRACT_VERSION == "CARGO_PKG_VERSION"

\* An Item in storage: <<>> when nothing was saved, <<value>> otherwise.
Empty == <<>>

Saved(v) == <<v>>

Coin(denom, amount) == [denom |-> denom, amount |-> amount]

MessageInfo(sender, funds) == [sender |-> sender, funds |-> funds]

\* Result<Response, ContractError>, or the panic that aborted the call
Ok(attributes, messages) ==
    [kind |-> "Ok", err |-> "", attributes |-> attributes, messages |-> messages,
     data |-> <<>>]

Err(e) ==
    [kind |-> "Err", err |-> e, attributes |-> <<>>, messages |-> <<>>,
     data |-> <<>>]

Panic ==
    [kind |-> "Panic", err |-> "", attributes |-> <<>>, messages |-> <<>>,
     data |-> <<>>]

\* StdResult<Binary> of a query
OkData(d) ==
    [kind |-> "Ok", err |-> "", attributes |-> <<>>, messages |-> <<>>,
     data |-> <<d>>]

\* STATE.load / STATE.update on an empty item: StdError::NotFound, wrapped
\* by ContractError::Std
StdNotFound == "Std(NotFound)"

\* What a handler leaves: the item as stored after the call, and its result.
Outcome(item, r) == [item |-> item, res |-> r]

---------------------------------------------------------------------------
(* The handlers.                                                           *)

\* instantiate with the decimals of the two tokens taken from each other's
\* field of the message
instantiate_decimals_swapped(info, m) ==
    LET state == [count              |-> m.count,
                  owner              |-> info.sender,
                  dest_ic20_decimals |-> m.src_ic20_decimals,
                  dest_ic20_denom    |-> m.dest_ic20_denom,
                  src_ic20_decimals  |-> m.dest_ic20_decimals,
                  src_ic20_denom     |-> m.src_ic20_denom]
    IN  [item     |-> Saved(state),
         contract |-> Saved([contract |-> CONTRACT_NAME,
                             version  |-> CONTRACT_VERSION]),
         res      |-> Ok(<<<<"method", "instantiate">>, <<"owner", info.sender>>,
                           <<"count", m.count>>>>, <<>>)]

\* set_contract_version (cw2) writes the ContractVersion item
instantiate(info, m) ==
    LET state == [count              |-> m.count,
                  owner              |-> info.sender,
                  dest_ic20_decimals |-> m.dest_ic20_decimals,
                  dest_ic20_denom    |-> m.dest_ic20_denom,
                  src_ic20_decimals  |-> m.src_ic20_decimals,
                  src_ic20_denom     |-> m.src_ic20_denom]
    IN  [item     |-> Saved(state),
         contract |-> Saved([contract |-> CONTRACT_NAME,
                             version  |-> CONTRACT_VERSION]),
         res      |-> Ok(<<<<"method", "instantiate">>, <<"owner", info.sender>>,
                           <<"count", m.count>>>>, <<>>)]

\* state.count += 1 on an i32
try_increment(item) ==
    IF item = Empty THEN Outcome(item, Err(StdNotFound))
    ELSE LET state == item[1]
         IN  IF state.count = I32Max
             THEN IF overflow_checks
                  THEN Outcome(item, Panic)
                  ELSE Outcome(Saved([state EXCEPT !.count = I32Min]),
                               Ok(<<<<"method", "try_increment">>>>, <<>>))
             ELSE Outcome(Saved([state EXCEPT !.count = state.count + 1]),
                          Ok(<<<<"method", "try_increment">>>>, <<>>))

\* try_reset without the comparison of the sender with the owner
try_reset_any_sender(item, info, count) ==
    IF item = Empty THEN Outcome(item, Err(StdNotFound))
    ELSE Outcome(Saved([item[1] EXCEPT !.count = count]),
                 Ok(<<<<"method", "reset">>>>, <<>>))

\* try_reset that lets anyone reset and records the sender as the owner
try_reset_claims_owner(item, info, count) ==
    IF item = Empty THEN Outcome(item, Err(StdNotFound))
    ELSE Outcome(Saved([item[1] EXCEPT !.count = count, !.owner = info.sender]),
                 Ok(<<<<"method", "reset">>>>, <<>>))

\* try_reset that answers Ok and leaves the count as it was
try_reset_count_kept(item, info, count) ==
    IF item = Empty THEN Outcome(item, Err(StdNotFound))
    ELSE IF info.sender # item[1].owner
    THEN Outcome(item, Err("Unauthorized"))
    ELSE Outcome(item, Ok(<<<<"method", "reset">>>>, <<>>))

try_reset(item, info, count) ==
    IF item = Empty THEN Outcome(item, Err(StdNotFound))
    ELSE LET state == item[1]
         IN  IF info.sender # state.owner
             THEN Outcome(item, Err("Unauthorized"))
             ELSE Outcome(Saved([state EXCEPT !.count = count]),
                          Ok(<<<<"method", "reset">>>>, <<>>))

\* the check with any() in the place of all()
any_denom(funds, denom) == \E i \in 1..Len(funds) : funds[i].denom = denom

\* info.funds.iter().all(|f| f.denom == denom)
all_denom(funds, denom) == \A i \in 1..Len(funds) : funds[i].denom = denom

\* deposit_dest_tokens that saves the record with the depositor as owner
deposit_dest_tokens_records_caller(item, info) ==
    IF item = Empty THEN Outcome(item, Err(StdNotFound))
    ELSE LET state == item[1]
         IN  IF ~all_denom(info.funds, state.dest_ic20_denom)
             THEN Outcome(item, Err("InvalidFunds"))
             ELSE Outcome(Saved([state EXCEPT !.owner = info.sender]),
                          Ok(<<>>, <<>>))

deposit_dest_tokens(item, info) ==
    IF item = Empty THEN Outcome(item, Err(StdNotFound))
    ELSE LET state == item[1]
         IN  IF ~all_denom(info.funds, state.dest_ic20_denom)
             THEN Outcome(item, Err("InvalidFunds"))
             ELSE Outcome(item, Ok(<<>>, <<>>))

\* .filter(|c| c.denom == src_denom).map(|c| c.amount).sum(): a fold of
\* Uint128 additions from zero, in the order of the funds
RECURSIVE sum_from(_, _, _, _)
sum_from(funds, src_denom, i, acc) ==
    IF i > Len(funds) THEN Val(acc)
    ELSE IF funds[i].denom # src_denom THEN sum_from(funds, src_denom, i + 1, acc)
    ELSE LET t == add_Uint128(acc, funds[i].amount)
         IN  IF t.panic THEN Panicked
             ELSE sum_from(funds, src_denom, i + 1, t.v)

\* the sum without the filter on the denom
RECURSIVE sum_all_from(_, _, _)
sum_all_from(funds, i, acc) ==
    IF i > Len(funds) THEN Val(acc)
    ELSE LET t == add_Uint128(acc, funds[i].amount)
         IN  IF t.panic THEN Panicked ELSE sum_all_from(funds, i + 1, t.v)

received_amount_unfiltered(funds, src_denom) == sum_all_from(funds, 1, <<>>)

received_amount(funds, src_denom) == sum_from(funds, src_denom, 1, <<>>)

get_bank_transfer_to_msg(recipient, denom, native_amount) ==
    [type |-> "BankMsg::Send", to_address |-> recipient,
     amount |-> <<Coin(denom, native_amount)>>]

\* convert_tokens that hands the decimals to the conversion in the other order
convert_tokens_decimals_swapped(item, info, src_token_amount) ==
    IF item = Empty THEN Outcome(item, Err(StdNotFound))
    ELSE
    LET state    == item[1]
        received == received_amount(info.funds, state.src_ic20_denom)
        out      == calculate_token_conversion_output(
                        received.v, N(10 * state.dest_ic20_decimals),
                        state.dest_ic20_decimals, state.src_ic20_decimals)
    IN  IF ~all_denom(info.funds, state.dest_ic20_denom)
        THEN Outcome(item, Err("InvalidFunds"))
        ELSE IF received.panic THEN Outcome(item, Panic)
        ELSE IF received.v # src_token_amount THEN Outcome(item, Err("InvalidFunds"))
        ELSE IF out.kind = "Panic" THEN Outcome(item, Panic)
        ELSE Outcome(item, Ok(<<>>, <<get_bank_transfer_to_msg(
                                          info.sender, state.dest_ic20_denom,
                                          out.amount)>>))

convert_tokens(item, info, src_token_amount) ==
    IF item = Empty THEN Outcome(item, Err(StdNotFound))
    ELSE
    LET state     == item[1]
        src_denom == state.src_ic20_denom
    IN  IF ~all_denom(info.funds, state.dest_ic20_denom)
        THEN Outcome(item, Err("InvalidFunds"))
        ELSE
        LET received_src_token_amount == received_amount(info.funds, src_denom)
        IN  IF received_src_token_amount.panic THEN Outcome(item, Panic)
            ELSE IF received_src_token_amount.v # src_token_amount
            THEN Outcome(item, Err("InvalidFunds"))
            ELSE
            LET out_token_amount ==
                    calculate_token_conversion_output(
                        received_src_token_amount.v,
                        N(10 * state.dest_ic20_decimals),
                        state.src_ic20_decimals,
                        state.dest_ic20_decimals)
            IN  IF out_token_amount.kind = "Panic" THEN Outcome(item, Panic)
                ELSE Outcome(item,
                             Ok(<<>>, <<get_bank_transfer_to_msg(
                                            info.sender, state.dest_ic20_denom,
                                            out_token_amount.amount)>>))

\* query_count that answers 0 where no record is stored
query_count_or_default(item) ==
    IF item = Empty THEN OkData([count |-> 0])
    ELSE OkData([count |-> item[1].count])

query_count(item) ==
    IF item = Empty THEN Err(StdNotFound)
    ELSE OkData([count |-> item[1].count])

execute(item, info, m) ==
    IF m.type = "Increment" THEN try_increment(item)
    ELSE try_reset(item, info, m.count)

query(item, m) == query_count(item)

---------------------------------------------------------------------------
(* The callers: what the actions draw their inputs from.                   *)

MaxFunds == 2

MaxIncrements == 2

Addrs == {"creator", "anyone"}

Denoms == {"erc20token", "cosmostoken"}

\* <<src_ic20_decimals, src_ic20_denom, dest_ic20_decimals, dest_ic20_denom>>,
\* the decimals each a u8
Configs ==
    {<<18, "erc20token", 6, "cosmostoken">>,
     <<0, "cosmostoken", 1, "cosmostoken">>,
     <<6, "cosmostoken", 39, "cosmostoken">>,
     <<6, "erc20token", 39, "cosmostoken">>}

InstantiateCounts == {17, I32Max}

ResetCounts == {5, I32Min}

InstantiateMsgs ==
    {[count              |-> c,
      src_ic20_decimals  |-> cfg[1],
      src_ic20_denom     |-> cfg[2],
      dest_ic20_decimals |-> cfg[3],
      dest_ic20_denom    |-> cfg[4]] :
        c \in InstantiateCounts, cfg \in Configs}

FundAmounts == {N(1), U128Max}

DeclaredAmounts == {<<>>, N(1), N(2), U128Max}

Coins == {Coin(d, a) : d \in Denoms, a \in FundAmounts}

FundsLists == UNION {[1..n -> Coins] : n \in 0..MaxFunds}

\* The counters from which one more Increment is explored: up to
\* MaxIncrements calls after an instantiate or a reset.
IncrementWindow ==
    UNION {c..(IF c > I32Max - MaxIncrements THEN I32Max ELSE c + MaxIncrements - 1) :
               c \in InstantiateCounts \cup ResetCounts}

NoCall == [op |-> "none"]

NotRun ==
    [kind |-> "None", err |-> "", attributes |-> <<>>, messages |-> <<>>,
     data |-> <<>>]

---------------------------------------------------------------------------
(* The contract: one action per entry point or public handler.  msg is the *)
(* call being answered and res its result; the host runs one call at a     *)
(* time, and takes the result (Respond) before it admits the next.         *)

Init ==
    /\ StateItem = Empty
    /\ contract_info = Empty
    /\ overflow_checks \in BOOLEAN
    /\ msg = NoCall
    /\ res = NotRun

Instantiate ==
    /\ msg = NoCall
    /\ \E sender \in Addrs, m \in InstantiateMsgs :
        LET info == MessageInfo(sender, <<>>)
            o    == instantiate(info, m)
        IN  /\ StateItem' = o.item
            /\ contract_info' = o.contract
            /\ msg' = [op |-> "instantiate", info |-> info, msg |-> m]
            /\ res' = o.res
            /\ UNCHANGED overflow_checks

Execute(info, m) ==
    LET o == execute(StateItem, info, m)
    IN  /\ StateItem' = o.item
        /\ msg' = [op |-> "execute", info |-> info, msg |-> m]
        /\ res' = o.res
        /\ UNCHANGED <<contract_info, overflow_checks>>

ExecuteIncrement ==
    /\ msg = NoCall
    /\ StateItem # Empty => StateItem[1].count \in IncrementWindow
    /\ \E sender \in Addrs :
           Execute(MessageInfo(sender, <<>>), [type |-> "Increment"])

ExecuteReset ==
    /\ msg = NoCall
    /\ \E sender \in Addrs, count \in ResetCounts :
        Execute(MessageInfo(sender, <<>>), [type |-> "Reset", count |-> count])

DepositDestTokens ==
    /\ msg = NoCall
    /\ \E sender \in Addrs, funds \in FundsLists :
        LET info == MessageInfo(sender, funds)
            o    == deposit_dest_tokens(StateItem, info)
        IN  /\ StateItem' = o.item
            /\ msg' = [op |-> "deposit_dest_tokens", info |-> info]
            /\ res' = o.res
            /\ UNCHANGED <<contract_info, overflow_checks>>

ConvertTokens ==
    /\ msg = NoCall
    /\ \E sender \in Addrs, funds \in FundsLists, src_token_amount \in DeclaredAmounts :
        LET info == MessageInfo(sender, funds)
            o    == convert_tokens(StateItem, info, src_token_amount)
        IN  /\ StateItem' = o.item
            /\ msg' = [op |-> "convert_tokens", info |-> info,
                       src_token_amount |-> src_token_amount]
            /\ res' = o.res
            /\ UNCHANGED <<contract_info, overflow_checks>>

Query ==
    /\ msg = NoCall
    /\ msg' = [op |-> "query", msg |-> [type |-> "GetCount"]]
    /\ res' = query(StateItem, [type |-> "GetCount"])
    /\ UNCHANGED <<StateItem, contract_info, overflow_checks>>

Respond ==
    /\ msg # NoCall
    /\ msg' = NoCall
    /\ res' = NotRun
    /\ UNCHANGED <<StateItem, contract_info, overflow_checks>>

Next ==
    \/ Instantiate
    \/ ExecuteIncrement
    \/ ExecuteReset
    \/ DepositDestTokens
    \/ ConvertTokens
    \/ Query
    \/ Respond

Spec == Init /\ [][Next]_vars

---------------------------------------------------------------------------
(* The counter and the configuration record.                               *)

\* msg is a Reset that the contract, holding a record, has answered
ResetAnswered ==
    /\ msg.op = "execute"
    /\ msg.msg.type = "Reset"
    /\ StateItem # Empty

\* the step is a call of execute with Reset on a contract that holds a
\* record, sent by someone who is not the recorded owner
ResetByNonOwner ==
    /\ msg'.op = "execute"
    /\ msg'.msg.type = "Reset"
    /\ StateItem # Empty
    /\ msg'.info.sender # StateItem[1].owner

\* C1: a reset whose caller is not the recorded owner fails with
\* Unauthorized and leaves the whole stored record, the counter included, as
\* it was before the call, for every new count and every such caller.
C1_ResetByNonOwnerRejected ==
    [][ResetByNonOwner => (res' = Err("Unauthorized") /\ StateItem' = StateItem)]_vars

C1_Witness ==
    /\ ResetAnswered
    /\ msg.info.sender # StateItem[1].owner
    /\ msg.msg.count # StateItem[1].count
    /\ res = Err("Unauthorized")

\* C2: a reset by the recorded owner succeeds, and the query of the count
\* made right after it (on the record the reset left) returns the new count.
C2_ResetByOwnerTakesEffect ==
    (ResetAnswered /\ msg.info.sender = StateItem[1].owner)
        => /\ res.kind = "Ok"
           /\ query(StateItem, [type |-> "GetCount"])
                  = OkData([count |-> msg.msg.count])

C2_Witness ==
    /\ ResetAnswered
    /\ msg.info.sender = StateItem[1].owner
    /\ msg.msg.count = I32Min
    /\ res.kind = "Ok"
    /\ StateItem[1].count = I32Min

\* C3: every increment on a contract that holds a record, whoever sends it
\* and whatever the counter c (2^31 - 1 included), succeeds and leaves the
\* counter at c + 1; N calls in a row therefore leave c + N.
C3_IncrementAddsOne ==
    [][(msg'.op = "execute" /\ msg'.msg.type = "Increment" /\ StateItem # Empty)
          => /\ res'.kind = "Ok"
             /\ StateItem' # Empty
             /\ StateItem'[1].count > StateItem[1].count
             /\ StateItem'[1].count - StateItem[1].count = 1]_vars

\* the sum, as a number, of the amounts of the funds of the given denom
RECURSIVE ExactSum(_, _, _)
ExactSum(funds, denom, i) ==
    IF i > Len(funds) THEN <<>>
    ELSE IF funds[i].denom = denom
    THEN BAdd(funds[i].amount, ExactSum(funds, denom, i + 1))
    ELSE ExactSum(funds, denom, i + 1)

\* msg is a convert_tokens that the contract, holding a record, has
\* answered, and the funds of the source denom do not add up to the amount
\* the caller declared
ConvertMisdeclared ==
    /\ msg.op = "convert_tokens"
    /\ StateItem # Empty
    /\ ExactSum(msg.info.funds, StateItem[1].src_ic20_denom, 1) # msg.src_token_amount

\* C6: convert_tokens fails with InvalidFunds and emits no transfer whenever
\* the amounts of the tendered funds of the source denom add up to anything
\* but the declared source amount.
C6_MisdeclaredAmountRejected ==
    ConvertMisdeclared => res = Err("InvalidFunds")

\* C10: the stored decimals of both tokens are in 0..38, whatever the
\* instantiate message supplied.
C10_StoredDecimalsBounded ==
    StateItem # Empty
        => /\ StateItem[1].src_ic20_decimals \in 0..38
           /\ StateItem[1].dest_ic20_decimals \in 0..38

---------------------------------------------------------------------------
(* The configuration record and the handling of the funds.                 *)

\* a record without its counter
Configuration(state) == [state EXCEPT !.count = 0]

\* C11: once the record exists, no increment, reset (by the owner or not),
\* deposit, conversion or query changes its owner, denoms or decimals; only
\* the counter is ever modified by them.
C11_OnlyCounterChanges ==
    [][(StateItem # Empty /\ msg'.op # "instantiate")
          => /\ StateItem' # Empty
             /\ Configuration(StateItem'[1]) = Configuration(StateItem[1])]_vars

C11_Witness ==
    /\ msg.op = "execute"
    /\ msg.msg.type = "Increment"
    /\ msg.info.sender = "anyone"
    /\ res.kind = "Ok"
    /\ StateItem # Empty
    /\ StateItem[1].owner = "creator"
    /\ StateItem[1].count = 6

\* C12: once the record exists no later call, a further instantiate
\* included, re-creates or replaces it or its owner, and none removes it.
C12_InstantiateOnce ==
    [][StateItem # Empty
          => /\ StateItem' # Empty
             /\ Configuration(StateItem'[1]) = Configuration(StateItem[1])]_vars

\* C13: instantiate stores exactly the count, denoms and decimals of its
\* message with the sender as owner, emits no message, and the query of the
\* count right after it returns the count supplied.
C13_InstantiateStoresMessage ==
    msg.op = "instantiate"
        => /\ StateItem = <<[count              |-> msg.msg.count,
                             owner              |-> msg.info.sender,
                             src_ic20_denom     |-> msg.msg.src_ic20_denom,
                             src_ic20_decimals  |-> msg.msg.src_ic20_decimals,
                             dest_ic20_denom    |-> msg.msg.dest_ic20_denom,
                             dest_ic20_decimals |-> msg.msg.dest_ic20_decimals]>>
           /\ res.kind = "Ok"
           /\ res.messages = <<>>
           /\ query(StateItem, [type |-> "GetCount"])
                  = OkData([count |-> msg.msg.count])

C13_Witness ==
    /\ msg.op = "instantiate"
    /\ msg.info.sender = "anyone"
    /\ msg.msg.count = I32Max
    /\ StateItem # Empty
    /\ StateItem[1].owner = "anyone"
    /\ StateItem[1].src_ic20_decimals = 18
    /\ StateItem[1].dest_ic20_decimals = 6

\* C14: neither convert_tokens nor deposit_dest_tokens changes the stored
\* record, whether the call succeeds or fails.
C14_FundsCallsKeepRecord ==
    [][msg'.op \in {"convert_tokens", "deposit_dest_tokens"}
          => StateItem' = StateItem]_vars

C14_Witness ==
    /\ msg.op = "deposit_dest_tokens"
    /\ res.kind = "Ok"
    /\ StateItem # Empty
    /\ msg.info.sender # StateItem[1].owner
    /\ Len(msg.info.funds) = 1

\* C15: a convert_tokens that succeeds emits exactly one transfer, to the
\* caller, in the destination denom, of the amount the conversion gives for
\* the sum of the funds of the source denom, the rate 10 * dest decimals,
\* the source decimals and the destination decimals.
C15_OneTransferOfConvertedAmount ==
    (msg.op = "convert_tokens" /\ res.kind = "Ok")
        => LET state  == StateItem[1]
               amount == calculate_token_conversion_output(
                             ExactSum(msg.info.funds, state.src_ic20_denom, 1),
                             N(10 * state.dest_ic20_decimals),
                             state.src_ic20_decimals,
                             state.dest_ic20_decimals)
           IN  /\ Len(res.messages) = 1
               /\ res.messages[1].to_address = msg.info.sender
               /\ amount.kind = "Ok"
               /\ res.messages[1].amount
                      = <<[denom |-> state.dest_ic20_denom, amount |-> amount.amount]>>

C15_Witness ==
    /\ msg.op = "convert_tokens"
    /\ res.kind = "Ok"
    /\ msg.src_token_amount = N(1)
    /\ Len(res.messages) = 1
    /\ res.messages[1].amount = <<[denom |-> "cosmostoken", amount |-> N(10)]>>

\* the denoms of the funds tendered with msg
FundsDenoms == {msg.info.funds[i].denom : i \in 1..Len(msg.info.funds)}

\* C16: the validation of the funds passes exactly when the denom of every
\* item is the destination denom (no item at all passes): deposit_dest_tokens
\* then succeeds and otherwise fails with InvalidFunds, and convert_tokens
\* fails with InvalidFunds on any other denom and succeeds only without one.
C16_FundsDenomValidation ==
    (StateItem # Empty /\ msg.op \in {"convert_tokens", "deposit_dest_tokens"})
        => LET passes == FundsDenoms \subseteq {StateItem[1].dest_ic20_denom}
           IN  /\ ~passes => res = Err("InvalidFunds")
               /\ res.kind = "Ok" => passes
               /\ (msg.op = "deposit_dest_tokens" /\ passes) => res.kind = "Ok"

C16_Witness ==
    /\ StateItem # Empty
    /\ msg.op = "deposit_dest_tokens"
    /\ Len(msg.info.funds) = 2
    /\ msg.info.funds[1].denom = StateItem[1].dest_ic20_denom
    /\ msg.info.funds[2].denom # StateItem[1].dest_ic20_denom
    /\ res = Err("InvalidFunds")

\* C17: while no record is stored, an increment, a reset, a deposit, a
\* conversion and a query of the count each fail with the storage error,
\* emit no message and leave the contract without a record.
C17_UninitializedCallsFail ==
    [][(StateItem = Empty
          /\ msg'.op \in {"execute", "deposit_dest_tokens", "convert_tokens", "query"})
          => (res' = Err(StdNotFound) /\ StateItem' = Empty)]_vars

C17_Witness ==
    /\ StateItem = Empty
    /\ msg.op = "query"
    /\ res = Err(StdNotFound)

\* C18: where the source denom differs from the destination denom, a
\* convert_tokens succeeds only with a declared amount of 0, and the
\* transfer it emits is of amount 0.
C18_DistinctDenomsConvertZero ==
    (msg.op = "convert_tokens" /\ res.kind = "Ok"
        /\ StateItem[1].src_ic20_denom # StateItem[1].dest_ic20_denom)
        => /\ msg.src_token_amount = <<>>
           /\ \A i \in 1..Len(res.messages) :
                  \A j \in 1..Len(res.messages[i].amount) :
                      res.messages[i].amount[j].amount = <<>>

C18_Witness ==
    /\ msg.op = "convert_tokens"
    /\ res.kind = "Ok"
    /\ StateItem[1].src_ic20_denom # StateItem[1].dest_ic20_denom
    /\ Len(msg.info.funds) = 2
    /\ Len(res.messages) = 1
    /\ res.messages[1].amount[1].amount = <<>>

---------------------------------------------------------------------------
(* The conversion engine called on its own, as tests::test_convert_token   *)
(* calls it: once, and then once more on the result, with the reciprocal   *)
(* rate and the decimals swapped.                                          *)

TwoTo64 == [i \in 1..9 |-> IF i = 9 THEN 1 ELSE 0]

ConvertAmounts ==
    {<<>>, N(1), N(9), BMul(N(3), Pow10(6)), BMul(N(3), Pow10(9)),
     BMul(N(3), Pow10(18)), TwoTo64, U128Max}

ConvertRates ==
    {<<>>, N(1), N(5), N(666666), N(666666666), N(1000000), TwoTo64}

ConvertDecimals == {0, 6, 9, 18, 38, 39, 128}

ConvertCall(amount, rate, input_decimals, output_decimals, first) ==
    [op |-> "calculate_token_conversion_output", amount |-> amount, rate |-> rate,
     input_decimals |-> input_decimals, output_decimals |-> output_decimals,
     first |-> first]

\* the largest d for which 10^d is a u128
MaxDecimals ==
    CHOOSE d \in 0..(Base - 1) : FitsU128(Pow10(d)) /\ ~FitsU128(Pow10(d + 1))

\* the rate r' with rate * r' = 10^(input_decimals + output_decimals), floored
ReciprocalRate(rate, input_decimals, output_decimals) ==
    BDiv(Pow10(input_decimals + output_decimals), rate)

ConvInit ==
    /\ StateItem = Empty
    /\ contract_info = Empty
    /\ overflow_checks \in BOOLEAN
    /\ msg \in {ConvertCall(a, r, i, o, <<>>) :
                    a \in ConvertAmounts, r \in ConvertRates,
                    i \in ConvertDecimals, o \in ConvertDecimals}
    /\ res = NotRun

Calculate ==
    /\ res = NotRun
    /\ res' = calculate_token_conversion_output(
                  msg.amount, msg.rate, msg.input_decimals, msg.output_decimals)
    /\ UNCHANGED <<StateItem, contract_info, overflow_checks, msg>>

ConvertBack ==
    /\ res.kind = "Ok"
    /\ msg.first = <<>>
    /\ msg.rate # <<>>
    /\ msg.input_decimals + msg.output_decimals <= 2 * MaxDecimals
    /\ LET back == ReciprocalRate(msg.rate, msg.input_decimals, msg.output_decimals)
       IN  /\ FitsU128(back)
           /\ msg' = ConvertCall(res.amount, back, msg.output_decimals,
                                 msg.input_decimals, <<msg>>)
           /\ res' = calculate_token_conversion_output(
                         res.amount, back, msg.output_decimals, msg.input_decimals)
    /\ UNCHANGED <<StateItem, contract_info, overflow_checks>>

ConvNext ==
    \/ Calculate
    \/ ConvertBack

ConvSpec == ConvInit /\ [][ConvNext]_vars

---------------------------------------------------------------------------
(* The conversion against exact arithmetic.                                *)

\* q = floor(x / y), said with multiplications only
IsFloor(q, x, y) == BLeq(BMul(q, y), x) /\ BLt(x, BMul(BAdd(q, N(1)), y))

\* an intermediate value of the conversion, computed exactly, is not a u128
Overflows(amount, rate, input_decimals, output_decimals) ==
    LET product == BMul(amount, rate)
    IN  \/ ~FitsU128(product)
        \/ ~FitsU128(Pow10(output_decimals))
        \/ /\ input_decimals < output_decimals
           /\ \/ ~FitsU128(Pow10(output_decimals - input_decimals))
              \/ ~FitsU128(BMul(product, Pow10(output_decimals - input_decimals)))
        \/ /\ output_decimals < input_decimals
           /\ ~FitsU128(Pow10(input_decimals - output_decimals))

MsgOverflows ==
    Overflows(msg.amount, msg.rate, msg.input_decimals, msg.output_decimals)

Answered == res # NotRun

\* C4: with the same decimals d on both sides the conversion returns
\* floor(amount * rate / 10^d), the product taken exactly, for all u128
\* amounts and rates and every d.
C4_SameDecimalsFloor ==
    (Answered /\ msg.input_decimals = msg.output_decimals)
        => /\ res.kind = "Ok"
           /\ IsFloor(res.amount, BMul(msg.amount, msg.rate), Pow10(msg.output_decimals))

\* C5: when an intermediate value (amount * rate, its product with the
\* compensation, a power of ten) exceeds the u128 range, the conversion ends
\* in a failure and returns no value.
C5_OverflowIsFailure ==
    (Answered /\ MsgOverflows) => res.kind # "Ok"

\* C7: with different decimals and no overflow the conversion returns
\* floor(amount * rate * 10^(out - in) / 10^out) where in < out and
\* floor(floor(amount * rate / 10^(in - out)) / 10^out) where out < in; and
\* the three scenarios of the tests give 1_999_999_998, 1_999_998 and
\* 3_000_000.
C7_TwoStepRescaling ==
    (Answered /\ msg.input_decimals # msg.output_decimals /\ ~MsgOverflows)
        => LET product == BMul(msg.amount, msg.rate)
               in      == msg.input_decimals
               out     == msg.output_decimals
               q1      == BDiv(product, Pow10(in - out))
           IN  /\ res.kind = "Ok"
               /\ in < out =>
                      IsFloor(res.amount, BMul(product, Pow10(out - in)), Pow10(out))
               /\ out < in =>
                      /\ IsFloor(q1, product, Pow10(in - out))
                      /\ IsFloor(res.amount, q1, Pow10(out))
               /\ (msg.amount = BMul(N(3), Pow10(6)) /\ msg.rate = N(666666666)
                      /\ in = 6 /\ out = 9) => res.amount = N(1999999998)
               /\ (msg.amount = BMul(N(3), Pow10(9)) /\ msg.rate = N(666666)
                      /\ in = 9 /\ out = 6) => res.amount = N(1999998)
               /\ (msg.amount = BMul(N(3), Pow10(18)) /\ msg.rate = N(1000000)
                      /\ in = 18 /\ out = 6) => res.amount = N(3000000)

C7_Witness ==
    /\ res.kind = "Ok"
    /\ msg.amount = BMul(N(3), Pow10(9))
    /\ msg.rate = N(666666)
    /\ msg.input_decimals = 9
    /\ msg.output_decimals = 6
    /\ res.amount = N(1999998)

\* C8: a value the conversion returns never exceeds the amount owed,
\* amount * rate * 10^(out - in) / 10^out = amount * rate / 10^in, taken as
\* an exact rational.
C8_NeverMoreThanOwed ==
    res.kind = "Ok"
        => BLeq(BMul(res.amount, Pow10(msg.input_decimals)),
                BMul(msg.amount, msg.rate))

\* msg is the conversion back of the result of msg.first[1], and returned
RoundTrip == msg.first # <<>> /\ res.kind = "Ok"

\* the rate of the conversion back is the reciprocal without a remainder
ExactReciprocal ==
    BMul(msg.first[1].rate, msg.rate)
        = Pow10(msg.first[1].input_decimals + msg.first[1].output_decimals)

\* neither conversion of the round trip had an intermediate value beyond u128
RoundTripInRange ==
    /\ ~MsgOverflows
    /\ ~Overflows(msg.first[1].amount, msg.first[1].rate,
                  msg.first[1].input_decimals, msg.first[1].output_decimals)

C19_MonotoneInAmount ==
    /\ (Answered /\ ~MsgOverflows)
           => \A smaller \in ConvertAmounts :
                  BLeq(smaller, msg.amount)
                      => LET r == calculate_token_conversion_output(
                                      smaller, msg.rate,
                                      msg.input_decimals, msg.output_decimals)
                         IN  /\ r.kind = "Ok"
                             /\ res.kind = "Ok"
                             /\ BLeq(r.amount, res.amount)
    /\ (Answered /\ msg.amount = <<>>
            /\ msg.input_decimals <= MaxDecimals
            /\ msg.output_decimals <= MaxDecimals)
           => res = ConvertOk(<<>>)

C19_Witness ==
    /\ res.kind = "Ok"
    /\ ~MsgOverflows
    /\ msg.amount = BMul(N(3), Pow10(18))
    /\ msg.rate = N(1000000)
    /\ msg.input_decimals = 18
    /\ msg.output_decimals = 6
    /\ res.amount = BMul(N(3), Pow10(6))

==========================================================================
